---- MODULE Spec2Model ----
(***************************************************************************)
(* A model of env_canada/ec_historical.py: the station search              *)
(* (get_historical_stations) and the historical record fetcher            *)
(* (ECHistorical.__init__ and ECHistorical.update).                       *)
(*                                                                         *)
(* Representation.  A Python str is a sequence of one-character strings,   *)
(* so that replace(), int(), float() and the date formatting are computed  *)
(* character by character.  Python's None in a slot that otherwise holds   *)
(* a str is None; in a slot that otherwise holds a number it is NoneValue. *)
(* A Python dict is a function whose DOMAIN is its key set.                *)
(***************************************************************************)
EXTENDS Integers, Sequences, FiniteSets, TLC

VARIABLES
    inst,          \* the ECHistorical instance: exists, station_id, year, language, format
    metadata,      \* self.metadata
    station_data,  \* self.station_data
    ctor,          \* the last constructor call: its arguments, its outcome, the GETs it issued
    upd_pc,        \* position of the running update() coroutine
    upd_session,   \* TRUE while update()'s ClientSession is open
    upd_doc,       \* the response body the running / last update() received
    upd_outcome,   \* how the last update() ended
    upd_requests,  \* GET requests issued by the running / last update()
    upd_prev,      \* how the update() before the running / last one ended
    old,           \* self.metadata and self.station_data when the running / last update() was entered
    stn_pc,        \* position of the running get_historical_stations() coroutine
    stn_session,   \* TRUE while get_historical_stations()'s ClientSession is open
    stn_doc,       \* the page the running / last station search received
    stn_outcome,   \* how the last station search ended
    stn_result,    \* the mapping the last station search returned
    requests,      \* GET requests issued so far, by any call
    calls          \* coroutines started so far

vars == <<inst, metadata, station_data, ctor, upd_pc, upd_session, upd_doc,
          upd_outcome, upd_requests, upd_prev, old, stn_pc, stn_session, stn_doc,
          stn_outcome, stn_result, requests, calls>>

(***************************************************************************)
(* Bounds of the model.                                                    *)
(***************************************************************************)
MaxCalls == 2   \* calls of update / get_historical_stations in one behaviour
MaxDays == 2    \* stationdata elements in one XML document
MaxForms == 2   \* form elements in one station-search page

(***************************************************************************)
(* Python values.                                                          *)
(***************************************************************************)
None == <<"None">>
NoneValue == [type |-> "NoneType"]
EmptyDict == [k \in {} |-> None]

Digits == <<"0", "1", "2", "3", "4", "5", "6", "7", "8", "9">>
IsDigit(c) == \E i \in 1..10 : Digits[i] = c
DigitVal(c) == (CHOOSE i \in 1..10 : Digits[i] = c) - 1
AllDigits(s) == Len(s) > 0 /\ \A i \in 1..Len(s) : IsDigit(s[i])

RECURSIVE DecVal(_)
DecVal(s) == IF Len(s) = 0 THEN 0
             ELSE 10 * DecVal(SubSeq(s, 1, Len(s) - 1)) + DigitVal(s[Len(s)])

\* str.replace(",", ".")
str_replace_comma(s) == [i \in 1..Len(s) |-> IF s[i] = "," THEN "." ELSE s[i]]

IndexOf(s, c) == IF \E i \in 1..Len(s) : s[i] = c
                 THEN CHOOSE i \in 1..Len(s) : s[i] = c /\ \A j \in 1..(i - 1) : s[j] # c
                 ELSE 0

HasSign(s) == Len(s) > 0 /\ s[1] \in {"-", "+"}
Unsigned(s) == IF HasSign(s) THEN SubSeq(s, 2, Len(s)) ELSE s
Signed(s, n) == IF Len(s) > 0 /\ s[1] = "-" THEN 0 - n ELSE n

\* int(text): an optional sign and decimal digits; anything else is a ValueError
int_ok(s) == AllDigits(Unsigned(s))
int_of(s) == [type |-> "int", n |-> Signed(s, DecVal(Unsigned(s)))]

\* float(text): an optional sign, digits, and optionally a point and digits;
\* every other text of the model's documents is one Python rejects as well
IntPart(s) == IF IndexOf(s, ".") = 0 THEN s ELSE SubSeq(s, 1, IndexOf(s, ".") - 1)
FracPart(s) == IF IndexOf(s, ".") = 0 THEN <<>> ELSE SubSeq(s, IndexOf(s, ".") + 1, Len(s))
float_ok(s) ==
    LET u == Unsigned(s) IN
    /\ AllDigits(IntPart(u) \o FracPart(u))
    /\ \A i \in 1..Len(FracPart(u)) : FracPart(u)[i] # "."

RECURSIVE Normal(_, _)
Normal(num, scale) == IF scale > 0 /\ num % 10 = 0 THEN Normal(num \div 10, scale - 1)
                      ELSE <<num, scale>>
float_of(s) ==
    LET u == Unsigned(s)
        nf == Normal(DecVal(IntPart(u) \o FracPart(u)), Len(FracPart(u)))
    IN [type |-> "float", num |-> Signed(s, nf[1]), scale |-> nf[2]]

\* dict.get(key) and Python truthiness of a str-or-None
Get(d, k) == IF k \in DOMAIN d THEN d[k] ELSE None
Truthy(s) == s # None /\ Len(s) > 0

(***************************************************************************)
(* The registries.  Each is a sequence of <<key, meta>> in the dict's      *)
(* insertion order; an xpath "./a/b" is the sequence of its steps.         *)
(***************************************************************************)
Measure(tag, type, units, english, french) ==
    [xpath |-> <<".", tag>>, type |-> type, units |-> units,
     english |-> english, french |-> french]

stationdata_meta == <<
    <<"maxtemp", Measure("maxtemp", "float", "°C", "Maximum Temperature", "Température maximale")>>,
    <<"mintemp", Measure("mintemp", "float", "°C", "Minimum Temperature", "Température minimale")>>,
    <<"meantemp", Measure("meantemp", "float", "°C", "Mean Temperature", "Température moyenne")>>,
    <<"heatdegdays", Measure("heatdegdays", "float", "°C", "Heating Degree Days", "Degré-jour de chauffage")>>,
    <<"cooldegdays", Measure("cooldegdays", "float", "°C", "Cooling Degree Days", "Degré-jour de réfrigération")>>,
    <<"totalrain", Measure("totalrain", "float", "mm", "Total Rain", "Pluie totale")>>,
    <<"totalsnow", Measure("totalsnow", "float", "cm", "Total Snow", "Neige totale")>>,
    <<"totalprecipitation", Measure("totalprecipitation", "float", "mm", "Total Precipitation", "Précipitations totales")>>,
    <<"snowonground", Measure("snowonground", "float", "cm", "Snow on Ground", "Neige au sol")>>,
    <<"dirofmaxgust", Measure("dirofmaxgust", "int", "10s Deg", "Direction of Maximum Gust", "Direction de la rafale maximale")>>,
    <<"speedofmaxgust", Measure("speedofmaxgust", "int", "km/h", "Speed of Maximum Gust", "Vitesse de la rafale maximale")>> >>

Station(tag) == [xpath |-> <<".", "stationinformation", tag>>]

metadata_meta == <<
    <<"name", Station("name")>>,
    <<"province", Station("province")>>,
    <<"stationoperator", Station("stationoperator")>>,
    <<"latitude", Station("latitude")>>,
    <<"longitude", Station("longitude")>>,
    <<"elevation", Station("elevation")>>,
    <<"climate_identifier", Station("climate_identifier")>>,
    <<"wmo_identifier", Station("wmo_identifier")>>,
    <<"tc_identifier", Station("tc_identifier")>> >>

Keys(registry) == {registry[i][1] : i \in 1..Len(registry)}
MetaOf(registry, key) == registry[CHOOSE i \in 1..Len(registry) : registry[i][1] = key][2]

(***************************************************************************)
(* xml.etree.ElementTree.  An element is a record of its tag, its          *)
(* attributes (a dict), its text (None when empty) and its children in     *)
(* document order.                                                         *)
(***************************************************************************)
Element(tag, attrib, text, children) ==
    [tag |-> tag, attrib |-> attrib, text |-> text, children |-> children]

RECURSIVE findall(_, _)
RECURSIVE FindInChildren(_, _, _)
FindInChildren(children, tag, rest) ==
    IF Len(children) = 0 THEN <<>>
    ELSE (IF Head(children).tag = tag THEN findall(Head(children), rest) ELSE <<>>)
         \o FindInChildren(Tail(children), tag, rest)
\* Element.findall(path): every match, in document order
findall(element, path) ==
    IF Len(path) = 0 THEN <<element>>
    ELSE IF Head(path) = "." THEN findall(element, Tail(path))
    ELSE FindInChildren(element.children, Head(path), Tail(path))

\* Element.find(path) is None
find_is_None(element, path) == Len(findall(element, path)) = 0
\* Element.find(path), when it is not None
find(element, path) == Head(findall(element, path))

SetItem(d, k, v) == [x \in (DOMAIN d) \cup {k} |-> IF x = k THEN v ELSE d[x]]

(***************************************************************************)
(* parse_timestamp and str(date).  dateutil reads "Y-M-D" with a four      *)
(* digit first component as year, month, day; the documents of the model   *)
(* keep to that shape (or lack an attribute, which prints as "None").      *)
(***************************************************************************)
RECURSIVE Split(_, _)
Split(s, sep) ==
    IF IndexOf(s, sep) = 0 THEN <<s>>
    ELSE <<SubSeq(s, 1, IndexOf(s, sep) - 1)>> \o Split(SubSeq(s, IndexOf(s, sep) + 1, Len(s)), sep)

IsLeap(y) == (y % 4 = 0 /\ y % 100 # 0) \/ y % 400 = 0
DaysInMonth(y, m) ==
    IF m = 2 THEN (IF IsLeap(y) THEN 29 ELSE 28)
    ELSE IF m \in {4, 6, 9, 11} THEN 30 ELSE 31

\* f"{year}-{month}-{day}"
fstring_date(year, month, day) == year \o <<"-">> \o month \o <<"-">> \o day

\* parser.parse(t) returns (otherwise it raises ParserError)
parse_ok(t) ==
    LET p == Split(t, "-") IN
    /\ Len(p) = 3
    /\ \A i \in 1..3 : AllDigits(p[i])
    /\ Len(p[1]) = 4 /\ Len(p[2]) <= 2 /\ Len(p[3]) <= 2
    /\ DecVal(p[1]) >= 1
    /\ DecVal(p[2]) \in 1..12
    /\ DecVal(p[3]) \in 1..DaysInMonth(DecVal(p[1]), DecVal(p[2]))

parse_timestamp(t) ==
    LET p == Split(t, "-") IN
    [year |-> DecVal(p[1]), month |-> DecVal(p[2]), day |-> DecVal(p[3]), tzinfo |-> "UTC"]

RECURSIVE ZeroPad(_, _)
ZeroPad(n, width) ==
    IF width = 0 THEN <<>> ELSE ZeroPad(n \div 10, width - 1) \o <<Digits[(n % 10) + 1]>>

RECURSIVE ToDigits(_)
ToDigits(n) == IF n < 10 THEN <<Digits[n + 1]>> ELSE ToDigits(n \div 10) \o <<Digits[(n % 10) + 1]>>

\* a faulty variant: the date is written without zero padding
str_date_unpadded(dt) == ToDigits(dt.year) \o <<"-">> \o ToDigits(dt.month) \o <<"-">> \o ToDigits(dt.day)

\* str(dt) for dt = parse_timestamp(t).date()
str_date(dt) == ZeroPad(dt.year, 4) \o <<"-">> \o ZeroPad(dt.month, 2) \o <<"-">> \o ZeroPad(dt.day, 2)

(***************************************************************************)
(* update(), XML branch.                                                   *)
(***************************************************************************)
HasAttributeOverride(meta) == "attribute" \in DOMAIN meta /\ Truthy(meta["attribute"])

\* get_stationdata raises (ValueError from int() or float())
get_stationdata_raises(meta, stationdata_element) ==
    /\ ~find_is_None(stationdata_element, meta.xpath)
    /\ LET element == find(stationdata_element, meta.xpath) IN
       /\ element.text # None
       /\ ~HasAttributeOverride(meta)
       /\ \/ meta.type = "int" /\ ~int_ok(element.text)
          \/ meta.type = "float" /\ ~float_ok(str_replace_comma(element.text))

\* a faulty variant: the unit is recorded whenever the element has a units attribute
get_stationdata_any_unit(meta, stationdata_element, language) ==
    IF find_is_None(stationdata_element, meta.xpath)
    THEN [value |-> NoneValue, label |-> meta[language]]
    ELSE LET element == find(stationdata_element, meta.xpath) IN
         IF element.text = None THEN [value |-> NoneValue, label |-> meta[language]]
         ELSE LET value == IF meta.type = "int" THEN int_of(element.text)
                           ELSE float_of(str_replace_comma(element.text))
              IN IF "units" \in DOMAIN element.attrib
                 THEN [value |-> value, unit |-> element.attrib["units"], label |-> meta[language]]
                 ELSE [value |-> value, label |-> meta[language]]

\* get_stationdata's result, when it does not raise
get_stationdata(meta, stationdata_element, language) ==
    IF find_is_None(stationdata_element, meta.xpath)
    THEN [value |-> NoneValue, label |-> meta[language]]
    ELSE LET element == find(stationdata_element, meta.xpath) IN
         IF element.text = None THEN [value |-> NoneValue, label |-> meta[language]]
         ELSE IF HasAttributeOverride(meta)
         THEN [value |-> Get(element.attrib, meta["attribute"]), label |-> meta[language]]
         ELSE LET value == IF meta.type = "int" THEN int_of(element.text)
                           ELSE IF meta.type = "float" THEN float_of(str_replace_comma(element.text))
                           ELSE [type |-> "str", s |-> element.text]
              IN IF Truthy(Get(element.attrib, "units"))
                 THEN [value |-> value, unit |-> Get(element.attrib, "units"), label |-> meta[language]]
                 ELSE [value |-> value, label |-> meta[language]]

\* a faulty variant: only the kinds the day-element holds get a key
cur_station_data_present_only(stationdata_element, language) ==
    [s \in {k \in Keys(stationdata_meta) :
               ~find_is_None(stationdata_element, MetaOf(stationdata_meta, k).xpath)} |->
        get_stationdata(MetaOf(stationdata_meta, s), stationdata_element, language)]

\* cur_station_data after the loop over stationdata_meta
cur_station_data(stationdata_element, language) ==
    [s \in Keys(stationdata_meta) |->
        get_stationdata(MetaOf(stationdata_meta, s), stationdata_element, language)]

\* the loop over metadata_meta: every registered key is assigned
update_metadata(md, weather_tree) ==
    [m \in (DOMAIN md) \cup Keys(metadata_meta) |->
        IF m \in Keys(metadata_meta)
        THEN IF find_is_None(weather_tree, MetaOf(metadata_meta, m).xpath) THEN None
             ELSE find(weather_tree, MetaOf(metadata_meta, m).xpath).text
        ELSE md[m]]

date_text(stationdata_element) ==
    fstring_date(Get(stationdata_element.attrib, "year"),
                 Get(stationdata_element.attrib, "month"),
                 Get(stationdata_element.attrib, "day"))

\* the loop over stationdata_elements: the dict it leaves and how it ended
RECURSIVE update_station_data(_, _, _)
update_station_data(items, stationdata_elements, language) ==
    IF Len(stationdata_elements) = 0 THEN [items |-> items, exc |-> "ok"]
    ELSE LET el == Head(stationdata_elements) IN
         IF ~parse_ok(date_text(el)) THEN [items |-> items, exc |-> "ParserError"]
         ELSE IF \E i \in 1..Len(stationdata_meta) : get_stationdata_raises(stationdata_meta[i][2], el)
         THEN [items |-> items, exc |-> "ValueError"]
         ELSE update_station_data(
                  SetItem(items, str_date(parse_timestamp(date_text(el))), cur_station_data(el, language)),
                  Tail(stationdata_elements), language)

\* a faulty variant: the fields are reset before the body is parsed
update_xml_reset_first(md, sd, body, language) ==
    IF ~body.decodes
    THEN [metadata |-> EmptyDict, station_data |-> [type |-> "dict", items |-> EmptyDict], exc |-> "UnicodeDecodeError"]
    ELSE IF ~body.wellformed
    THEN [metadata |-> EmptyDict, station_data |-> [type |-> "dict", items |-> EmptyDict], exc |-> "ParseError"]
    ELSE LET weather_tree == body.root
             r == update_station_data(EmptyDict, findall(weather_tree, <<".", "stationdata">>), language)
         IN [metadata |-> update_metadata(EmptyDict, weather_tree),
             station_data |-> [type |-> "dict", items |-> r.items],
             exc |-> r.exc]

\* update() from result.decode("utf-8") to the end of the XML branch:
\* the fields it leaves and the exception it ends with ("ok" when none)
update_xml(md, sd, body, language) ==
    IF ~body.decodes THEN [metadata |-> md, station_data |-> sd, exc |-> "UnicodeDecodeError"]
    ELSE IF ~body.wellformed THEN [metadata |-> md, station_data |-> sd, exc |-> "ParseError"]
    ELSE LET weather_tree == body.root
             r == update_station_data(sd.items, findall(weather_tree, <<".", "stationdata">>), language)
         IN [metadata |-> update_metadata(md, weather_tree),
             station_data |-> [type |-> "dict", items |-> r.items],
             exc |-> r.exc]

(***************************************************************************)
(* update(), CSV branch.  StringIO yields the text line by line and        *)
(* csv.reader splits each line at the commas outside double quotes; the    *)
(* documents of the model hold no doubled quote and no quoted newline.     *)
(***************************************************************************)
\* the lines of a StringIO: the text split at "\n", no line after a final "\n"
StringIO_lines(text) ==
    LET parts == Split(text, "\n") IN
    IF Len(parts[Len(parts)]) = 0 THEN SubSeq(parts, 1, Len(parts) - 1) ELSE parts

RECURSIVE csv_fields(_, _, _, _)
csv_fields(line, i, inquote, field) ==
    IF i > Len(line) THEN <<field>>
    ELSE IF line[i] = "\"" THEN csv_fields(line, i + 1, ~inquote, field)
    ELSE IF line[i] = "," /\ ~inquote THEN <<field>> \o csv_fields(line, i + 1, FALSE, <<>>)
    ELSE csv_fields(line, i + 1, inquote, Append(field, line[i]))

\* one row of csv.reader: an empty line is the empty row
csv_row(line) == IF Len(line) = 0 THEN <<>> ELSE csv_fields(line, 1, FALSE, <<>>)

\* the rows csv.reader(f, delimiter=",") yields
csv_reader(text) == [i \in 1..Len(StringIO_lines(text)) |-> csv_row(StringIO_lines(text)[i])]

\* a faulty variant: the header row is not skipped
update_csv_no_header_skip(md, sd, body) ==
    IF ~body.decodes THEN [metadata |-> md, station_data |-> sd, exc |-> "UnicodeDecodeError"]
    ELSE LET rows == csv_reader(body.text)
             copy == [type |-> "StringIO", value |-> body.text]
         IN IF Len(rows) < 2 THEN [metadata |-> md, station_data |-> copy, exc |-> "RuntimeError"]
            ELSE IF Len(rows[1]) < 4 THEN [metadata |-> md, station_data |-> copy, exc |-> "IndexError"]
            ELSE [metadata |-> [longitude |-> rows[1][1], latitude |-> rows[1][2],
                                name |-> rows[1][3], climate_identifier |-> rows[1][4]],
                  station_data |-> copy, exc |-> "ok"]

\* a faulty variant: station_data is assigned only after the rows were read
update_csv_assign_last(md, sd, body) ==
    IF ~body.decodes THEN [metadata |-> md, station_data |-> sd, exc |-> "UnicodeDecodeError"]
    ELSE LET rows == csv_reader(body.text)
             copy == [type |-> "StringIO", value |-> body.text]
         IN IF Len(rows) < 2 THEN [metadata |-> md, station_data |-> sd, exc |-> "RuntimeError"]
            ELSE IF Len(rows[2]) < 4 THEN [metadata |-> md, station_data |-> sd, exc |-> "IndexError"]
            ELSE [metadata |-> [longitude |-> rows[2][1], latitude |-> rows[2][2],
                                name |-> rows[2][3], climate_identifier |-> rows[2][4]],
                  station_data |-> copy, exc |-> "ok"]

\* update() from response.text() to the end of the CSV branch.  next(reader)
\* on an exhausted reader raises StopIteration, which leaves the coroutine
\* as RuntimeError.
update_csv(md, sd, body) ==
    IF ~body.decodes THEN [metadata |-> md, station_data |-> sd, exc |-> "UnicodeDecodeError"]
    ELSE LET rows == csv_reader(body.text)
             copy == [type |-> "StringIO", value |-> body.text]
         IN IF Len(rows) < 2 THEN [metadata |-> md, station_data |-> copy, exc |-> "RuntimeError"]
            ELSE LET firstrow == rows[2] IN
                 IF Len(firstrow) < 4 THEN [metadata |-> md, station_data |-> copy, exc |-> "IndexError"]
                 ELSE [metadata |-> [longitude |-> firstrow[1], latitude |-> firstrow[2],
                                     name |-> firstrow[3], climate_identifier |-> firstrow[4]],
                       station_data |-> copy, exc |-> "ok"]

(***************************************************************************)
(* The response bodies the server may send.                                *)
(***************************************************************************)
Child(tag, text) == Element(tag, EmptyDict, text, <<>>)
ChildWithUnits(tag, text, units) == Element(tag, [units |-> units], text, <<>>)

DayRich ==      \* 2020-3-5: comma decimal, units, an empty units attribute, an unregistered kind
    Element("stationdata", [year |-> <<"2", "0", "2", "0">>, month |-> <<"3">>, day |-> <<"5">>], None,
        << ChildWithUnits("maxtemp", <<"1", ",", "5">>, <<"°", "C">>),
           ChildWithUnits("mintemp", <<"-", "3", ".", "0">>, <<>>),
           ChildWithUnits("totalrain", <<"0", ".", "0">>, <<"m", "m">>),
           Child("dirofmaxgust", <<"1", "2">>),
           Child("windchill", <<"7">>) >>)
DayPadded ==    \* 2020-03-05, the same day as DayRich: an element without text, a repeated kind
    Element("stationdata", [year |-> <<"2", "0", "2", "0">>, month |-> <<"0", "3">>, day |-> <<"0", "5">>], None,
        << ChildWithUnits("maxtemp", None, <<"°", "C">>),
           ChildWithUnits("speedofmaxgust", <<"3", "1">>, <<"k", "m", "/", "h">>),
           Child("speedofmaxgust", <<"9">>) >>)
DayBare ==      \* 2020-12-31: no measurement at all
    Element("stationdata", [year |-> <<"2", "0", "2", "0">>, month |-> <<"1", "2">>, day |-> <<"3", "1">>], None, <<>>)
DayBadNumber == \* 2019-2-28: text that int() rejects
    Element("stationdata", [year |-> <<"2", "0", "1", "9">>, month |-> <<"2">>, day |-> <<"2", "8">>], None,
        << Child("speedofmaxgust", <<"1", ".", "5">>) >>)
DayNoMonth ==   \* no month attribute
    Element("stationdata", [year |-> <<"2", "0", "1", "9">>, day |-> <<"3", "0">>], None,
        << Child("maxtemp", <<"4">>) >>)

DayElements == {DayRich, DayPadded, DayBare, DayBadNumber, DayNoMonth}

StationInformation ==
    Element("stationinformation", EmptyDict, None,
        << Child("name", <<"O", "T", "T", "A", "W", "A">>),
           Child("province", <<"O", "N">>),
           Child("latitude", <<"4", "5", ".", "3", "8">>),
           Child("longitude", <<"-", "7", "5", ".", "7", "2">>),
           Child("elevation", None),
           Child("climate_identifier", <<"6", "1", "0", "5", "9", "7", "6">>) >>)

\* sequences of at most n day-elements, none repeated
RECURSIVE DaySeqs(_)
DaySeqs(n) ==
    IF n = 0 THEN {<<>>}
    ELSE DaySeqs(n - 1) \cup
         {q \in {Append(x, e) : x \in DaySeqs(n - 1), e \in DayElements} :
              Len(q) = n /\ \A i, j \in 1..n : q[i] = q[j] => i = j}

XmlBody(children) ==
    [decodes |-> TRUE, wellformed |-> TRUE, root |-> Element("climatedata", EmptyDict, None, children)]

XmlBodies ==
    {XmlBody(<<StationInformation>> \o days) : days \in DaySeqs(MaxDays)}
    \cup {XmlBody(<<DayBare>>),
          [decodes |-> TRUE, wellformed |-> FALSE],
          [decodes |-> FALSE]}

CsvBody(text) == [decodes |-> TRUE, text |-> text]
Header == <<"h", ",", "i", ",", "j", ",", "k">>

CsvBodies ==
    {CsvBody(<<>>),
     CsvBody(Header),
     CsvBody(Header \o <<"\n", "1", ",", "2", ",", "3", ",", "4", ",", "5", "\n", "6", ",", "7", ",", "8", ",", "9", "\n">>),
     CsvBody(Header \o <<"\n", "\"", "6", ",", "0", "\"", ",", "\"", "7", "\"", ",", "8", ",", "\"", "9", "\"">>),
     CsvBody(Header \o <<"\n", "1", ",", "2", ",", "3">>),
     CsvBody(Header \o <<"\n", "\n", "1", ",", "2", ",", "3", ",", "4">>),
     [decodes |-> FALSE]}

(***************************************************************************)
(* get_historical_stations.  A page is the sequence of its form elements;  *)
(* a form is its id attribute ("" when it has none), the texts of the div  *)
(* elements of class "col-md-10 col-sm-8 col-xs-8" below it, and the       *)
(* attributes of its input children.                                       *)
(***************************************************************************)
StartsWith(s, prefix) == Len(s) >= Len(prefix) /\ SubSeq(s, 1, Len(prefix)) = prefix
EndsWith(s, suffix) ==
    Len(s) >= Len(suffix) /\ SubSeq(s, Len(s) - Len(suffix) + 1, Len(s)) = suffix

stnRequest == <<"s", "t", "n", "R", "e", "q", "u", "e", "s", "t">>
sm == <<"-", "s", "m">>

\* the XPath predicate on form/@id
is_station_req_form(form) == StartsWith(form.id, stnRequest) /\ EndsWith(form.id, sm)

\* a faulty variant: every form whose id starts with the prefix is taken
station_req_forms_any_suffix(forms) == SelectSeq(forms, LAMBDA f : StartsWith(f.id, stnRequest))

station_req_forms(forms) == SelectSeq(forms, is_station_req_form)

\* form.find("input[@name='...']") is None
input_is_None(form, name) == ~\E i \in 1..Len(form.inputs) : Get(form.inputs[i], "name") = name
\* form.find("input[@name='...']").attrib.get("value")
input_value(form, name) ==
    Get(form.inputs[CHOOSE i \in 1..Len(form.inputs) :
                        /\ Get(form.inputs[i], "name") = name
                        /\ \A j \in 1..(i - 1) : Get(form.inputs[j], "name") # name], "value")

\* the exception one pass of the loop body raises ("ok" when none)
station_exc(form) ==
    IF Len(form.divs) < 3 THEN "IndexError"
    ELSE IF form.divs[3] = None THEN "TypeError"
    ELSE IF ~float_ok(form.divs[3]) THEN "ValueError"
    ELSE IF \E n \in {"StationID", "hlyRange", "dlyRange", "mlyRange"} : input_is_None(form, n)
    THEN "AttributeError"
    ELSE "ok"

\* the station dict one pass of the loop body builds
station_of(form) ==
    [prov |-> form.divs[2],
     proximity |-> float_of(form.divs[3]),
     id |-> input_value(form, "StationID"),
     hlyRange |-> input_value(form, "hlyRange"),
     dlyRange |-> input_value(form, "dlyRange"),
     mlyRange |-> input_value(form, "mlyRange")]

RECURSIVE stations_loop(_, _)
stations_loop(stations, forms) ==
    IF Len(forms) = 0 THEN [stations |-> stations, exc |-> "ok"]
    ELSE IF station_exc(Head(forms)) # "ok" THEN [stations |-> stations, exc |-> station_exc(Head(forms))]
    ELSE stations_loop(SetItem(stations, Head(forms).divs[1], station_of(Head(forms))), Tail(forms))

\* get_historical_stations from result.decode("utf-8") to the return:
\* lxml.html.fromstring raises ParserError on an empty document
parse_stations(body) ==
    IF ~body.decodes THEN [stations |-> EmptyDict, exc |-> "UnicodeDecodeError"]
    ELSE IF body.empty THEN [stations |-> EmptyDict, exc |-> "ParserError"]
    ELSE stations_loop(EmptyDict, station_req_forms(body.forms))

Form(id, divs, inputs) == [id |-> id, divs |-> divs, inputs |-> inputs]
Input(name, value) == [name |-> name, value |-> value]
Ranges == << Input("hlyRange", <<"|">>), Input("dlyRange", <<"1", "8", "8", "9">>),
             [name |-> "mlyRange"] >>

FormOttawa ==
    Form(<<"s", "t", "n", "R", "e", "q", "u", "e", "s", "t", "1", "-", "s", "m">>, <<<<"O", "T", "T", "A", "W", "A">>, <<"O", "N">>, <<"1", ".", "5">>>>,
         <<Input("StationID", <<"4", "3", "3", "7">>)>> \o Ranges)
FormGatineau ==
    Form(<<"s", "t", "n", "R", "e", "q", "u", "e", "s", "t", "2", "-", "s", "m">>, <<<<"G", "A", "T", "I", "N", "E", "A", "U">>, <<"Q", "C">>, <<"1", "2">>>>,
         <<Input("Prov", <<"Q", "C">>), Input("StationID", <<"5", "5", "9", "0">>)>> \o Ranges)
FormLarge ==     \* the other rendering of the page: not selected
    Form(<<"s", "t", "n", "R", "e", "q", "u", "e", "s", "t", "1", "-", "l", "g">>, <<>>, <<>>)
FormSearch ==    \* another form of the page: not selected
    Form(<<"s", "e", "a", "r", "c", "h">>, <<>>, <<Input("searchType", <<"s", "t", "n", "P", "r", "o", "x">>)>>)
FormTwoBlocks == \* a selected form with two labelled blocks
    Form(<<"s", "t", "n", "R", "e", "q", "u", "e", "s", "t", "3", "-", "s", "m">>, <<<<"A", "L", "M", "O", "N", "T", "E">>, <<"O", "N">>>>, <<Input("StationID", <<"4", "3", "3", "7">>)>> \o Ranges)
FormNoId ==      \* a selected form without its StationID input
    Form(<<"s", "t", "n", "R", "e", "q", "u", "e", "s", "t", "4", "-", "s", "m">>, <<<<"O", "T", "T", "A", "W", "A">>, <<"O", "N">>, <<"7", ".", "2", "5">>>>, Ranges)

Forms == {FormOttawa, FormGatineau, FormLarge, FormSearch, FormTwoBlocks, FormNoId}

\* sequences of at most n forms, none repeated
RECURSIVE FormSeqs(_)
FormSeqs(n) ==
    IF n = 0 THEN {<<>>}
    ELSE FormSeqs(n - 1) \cup
         {q \in {Append(x, f) : x \in FormSeqs(n - 1), f \in Forms} :
              Len(q) = n /\ \A i, j \in 1..n : q[i] = q[j] => i = j}

Page(forms) == [decodes |-> TRUE, empty |-> FALSE, forms |-> forms]

Pages ==
    {Page(forms) : forms \in FormSeqs(MaxForms)}
    \cup {[decodes |-> TRUE, empty |-> TRUE], [decodes |-> FALSE]}

(***************************************************************************)
(* ECHistorical.__init__.  A keyword argument is a Python value with its   *)
(* type; the keyword strings (language, format) are TLA+ strings.          *)
(***************************************************************************)
MinYear == 1840
CurrentYear == 2026     \* datetime.today().year

PyInt(n) == [type |-> "int", n |-> n]
PyBool(b) == [type |-> "bool", n |-> IF b THEN 1 ELSE 0]
PyFloat(num, scale) == [type |-> "float", num |-> num, scale |-> scale]
PyStr(str) == [type |-> "str", s |-> str]

\* isinstance(v, int): bool is a subclass of int
isinstance_int(v) == v.type \in {"int", "bool"}

\* a faulty variant: vol.Range without its upper end
init_schema_no_max(kwargs) ==
    IF /\ DOMAIN kwargs \subseteq {"station_id", "year", "language", "format"}
       /\ "station_id" \in DOMAIN kwargs /\ isinstance_int(kwargs.station_id)
       /\ "year" \in DOMAIN kwargs /\ isinstance_int(kwargs.year) /\ kwargs.year.n >= MinYear
       /\ "language" \in DOMAIN kwargs => kwargs.language \in {PyStr("english"), PyStr("french")}
       /\ "format" \in DOMAIN kwargs => kwargs.format \in {PyStr("xml"), PyStr("csv")}
    THEN [exc |-> "ok",
          station_id |-> kwargs.station_id.n,
          year |-> kwargs.year.n,
          language |-> IF "language" \in DOMAIN kwargs THEN kwargs.language.s ELSE "english",
          format |-> IF "format" \in DOMAIN kwargs THEN kwargs.format.s ELSE "xml"]
    ELSE [exc |-> "MultipleInvalid"]

\* init_schema(kwargs): the validated arguments, or the error it raises
init_schema(kwargs) ==
    IF /\ DOMAIN kwargs \subseteq {"station_id", "year", "language", "format"}
       /\ "station_id" \in DOMAIN kwargs /\ isinstance_int(kwargs.station_id)
       /\ "year" \in DOMAIN kwargs /\ isinstance_int(kwargs.year)
       /\ "year" \in DOMAIN kwargs /\ kwargs.year.n \in MinYear..CurrentYear
       /\ "language" \in DOMAIN kwargs => kwargs.language \in {PyStr("english"), PyStr("french")}
       /\ "format" \in DOMAIN kwargs => kwargs.format \in {PyStr("xml"), PyStr("csv")}
    THEN [exc |-> "ok",
          station_id |-> kwargs.station_id.n,
          year |-> kwargs.year.n,
          language |-> IF "language" \in DOMAIN kwargs THEN kwargs.language.s ELSE "english",
          format |-> IF "format" \in DOMAIN kwargs THEN kwargs.format.s ELSE "xml"]
    ELSE [exc |-> "MultipleInvalid"]

\* the keyword arguments a caller may pass
GoodKwargs ==
    {[station_id |-> PyInt(4337), year |-> PyInt(MinYear)],
     [station_id |-> PyInt(4337), year |-> PyInt(CurrentYear), language |-> PyStr("french"), format |-> PyStr("xml")],
     [station_id |-> PyBool(TRUE), year |-> PyInt(2020), language |-> PyStr("english"), format |-> PyStr("csv")]}
BadKwargs ==
    {[station_id |-> PyInt(4337), year |-> PyInt(1700)],
     [station_id |-> PyInt(4337), year |-> PyInt(MinYear - 1)],
     [station_id |-> PyInt(4337), year |-> PyInt(CurrentYear + 1)],
     [station_id |-> PyInt(4337), year |-> PyStr("2020")],
     [station_id |-> PyInt(4337), year |-> PyFloat(2020, 0)],
     [station_id |-> PyInt(4337), year |-> PyBool(TRUE)],
     [station_id |-> PyStr("4337"), year |-> PyInt(2020)],
     [station_id |-> PyFloat(43375, 1), year |-> PyInt(2020)],
     [year |-> PyInt(2020)],
     [station_id |-> PyInt(4337)],
     [station_id |-> PyInt(4337), year |-> PyInt(2020), language |-> PyStr("german")],
     [station_id |-> PyInt(4337), year |-> PyInt(2020), language |-> PyInt(0)],
     [station_id |-> PyInt(4337), year |-> PyInt(2020), format |-> PyStr("json")],
     [station_id |-> PyInt(4337), year |-> PyInt(2020), units |-> PyStr("metric")]}
Kwargs == GoodKwargs \cup BadKwargs

(***************************************************************************)
(* The network and the caller.  session.get raises on a non-2xx status     *)
(* (raise_for_status=True), on a connection failure and on the timeout;    *)
(* reading the body can fail the same way.  The caller awaits each call    *)
(* before it starts the next one: the two flows share no state.            *)
(***************************************************************************)
GetErrors == {"ClientResponseError", "ClientConnectionError", "TimeoutError"}
ReadErrors == {"ClientPayloadError", "TimeoutError"}
TransportErrors == GetErrors \cup ReadErrors

\* a faulty variant: the session is closed on the normal path only
session_closed_on_return_only(exc) == exc # "ok"

\* the session after the `async with` block is left, with or without an exception
session_after(exc) == FALSE

NoBody == [decodes |-> FALSE, none |-> TRUE]
NoCtor == [kwargs |-> EmptyDict, exc |-> "none", requests |-> 0]
EmptyStationData == [type |-> "dict", items |-> EmptyDict]
NoOld == [metadata |-> EmptyDict, station_data |-> EmptyStationData]

Init ==
    /\ inst = [exists |-> FALSE]
    /\ metadata = EmptyDict
    /\ station_data = EmptyStationData
    /\ ctor = NoCtor
    /\ upd_pc = "idle"
    /\ upd_session = FALSE
    /\ upd_doc = NoBody
    /\ upd_outcome = "none"
    /\ upd_requests = 0
    /\ upd_prev = "none"
    /\ old = NoOld
    /\ stn_pc = "idle"
    /\ stn_session = FALSE
    /\ stn_doc = NoBody
    /\ stn_outcome = "none"
    /\ stn_result = EmptyDict
    /\ requests = 0
    /\ calls = 0

upd_vars == <<upd_pc, upd_session, upd_doc, upd_outcome, upd_requests, upd_prev, old>>
stn_vars == <<stn_pc, stn_session, stn_doc, stn_outcome, stn_result>>

\* ECHistorical(**kwargs)
Construct ==
    \E kwargs \in Kwargs :
        /\ ~inst.exists
        /\ requests' = requests
        /\ LET r == init_schema(kwargs) IN
           /\ ctor' = [kwargs |-> kwargs, exc |-> r.exc, requests |-> requests' - requests]
           /\ IF r.exc = "ok"
              THEN /\ inst' = [exists |-> TRUE, station_id |-> r.station_id, year |-> r.year,
                               language |-> r.language, format |-> r.format,
                               timeframe |-> 2, submit |-> "Download+Data"]
                   /\ metadata' = EmptyDict
                   /\ station_data' = EmptyStationData
              ELSE UNCHANGED <<inst, metadata, station_data>>
        /\ UNCHANGED <<upd_vars, stn_vars, calls>>

\* update() up to its first suspension: the session is opened and the GET is sent
UpdateEnter ==
    /\ inst.exists /\ upd_pc = "idle" /\ stn_pc = "idle" /\ calls < MaxCalls
    /\ upd_pc' = "get"
    /\ upd_session' = TRUE
    /\ upd_doc' = NoBody
    /\ upd_outcome' = "running"
    /\ upd_requests' = 1
    /\ old' = [metadata |-> metadata, station_data |-> station_data]
    /\ requests' = requests + 1
    /\ calls' = calls + 1
    /\ UNCHANGED <<inst, metadata, station_data, ctor, upd_prev, stn_vars>>

\* await session.get(...) returns a response
UpdateGetReturns ==
    /\ upd_pc = "get"
    /\ upd_pc' = "body"
    /\ UNCHANGED <<inst, metadata, station_data, ctor, upd_session, upd_doc, upd_outcome,
                   upd_requests, upd_prev, old, stn_vars, requests, calls>>

\* await session.get(...) raises
UpdateGetRaises ==
    \E exc \in GetErrors :
        /\ upd_pc = "get"
        /\ upd_pc' = "done"
        /\ upd_outcome' = exc
        /\ upd_session' = session_after(exc)
        /\ UNCHANGED <<inst, metadata, station_data, ctor, upd_doc, upd_requests, upd_prev,
                       old, stn_vars, requests, calls>>

\* await response.text() / response.read() raises
UpdateReadRaises ==
    \E exc \in ReadErrors :
        /\ upd_pc = "body"
        /\ upd_pc' = "done"
        /\ upd_outcome' = exc
        /\ upd_session' = session_after(exc)
        /\ UNCHANGED <<inst, metadata, station_data, ctor, upd_doc, upd_requests, upd_prev,
                       old, stn_vars, requests, calls>>

\* await response.text() / response.read() returns the body; the rest of
\* update() runs without suspension
UpdateBody ==
    /\ upd_pc = "body"
    /\ \E body \in (IF inst.format = "csv" THEN CsvBodies ELSE XmlBodies) :
        /\ upd_doc' = body
        /\ LET r == IF inst.format = "csv" THEN update_csv(metadata, station_data, body)
                    ELSE update_xml(metadata, station_data, body, inst.language)
           IN /\ metadata' = r.metadata
              /\ station_data' = r.station_data
              /\ upd_outcome' = r.exc
              /\ upd_session' = session_after(r.exc)
    /\ upd_pc' = "done"
    /\ UNCHANGED <<inst, ctor, upd_requests, upd_prev, old, stn_vars, requests, calls>>

\* the caller resumes: the coroutine and its locals are gone
UpdateReturn ==
    /\ upd_pc = "done"
    /\ upd_pc' = "idle"
    /\ upd_doc' = NoBody
    /\ upd_outcome' = "none"
    /\ upd_requests' = 0
    /\ upd_prev' = upd_outcome
    /\ old' = NoOld
    /\ UNCHANGED <<inst, metadata, station_data, ctor, upd_session, stn_vars, requests, calls>>

\* get_historical_stations() up to its first suspension
StationsEnter ==
    /\ stn_pc = "idle" /\ upd_pc = "idle" /\ calls < MaxCalls
    /\ stn_pc' = "get"
    /\ stn_session' = TRUE
    /\ stn_doc' = NoBody
    /\ stn_outcome' = "running"
    /\ requests' = requests + 1
    /\ calls' = calls + 1
    /\ UNCHANGED <<inst, metadata, station_data, ctor, upd_vars, stn_result>>

StationsGetReturns ==
    /\ stn_pc = "get"
    /\ stn_pc' = "body"
    /\ UNCHANGED <<inst, metadata, station_data, ctor, upd_vars, stn_session, stn_doc,
                   stn_outcome, stn_result, requests, calls>>

StationsGetRaises ==
    \E exc \in GetErrors :
        /\ stn_pc = "get"
        /\ stn_pc' = "done"
        /\ stn_outcome' = exc
        /\ stn_session' = session_after(exc)
        /\ UNCHANGED <<inst, metadata, station_data, ctor, upd_vars, stn_doc, stn_result,
                       requests, calls>>

StationsReadRaises ==
    \E exc \in ReadErrors :
        /\ stn_pc = "body"
        /\ stn_pc' = "done"
        /\ stn_outcome' = exc
        /\ stn_session' = session_after(exc)
        /\ UNCHANGED <<inst, metadata, station_data, ctor, upd_vars, stn_doc, stn_result,
                       requests, calls>>

\* await response.read() returns the page; the rest runs without suspension
StationsBody ==
    \E page \in Pages :
        /\ stn_pc = "body"
        /\ LET r == parse_stations(page)
           IN /\ stn_outcome' = r.exc
              /\ stn_result' = IF r.exc = "ok" THEN r.stations ELSE stn_result
              /\ stn_session' = session_after(r.exc)
        /\ stn_doc' = page
        /\ stn_pc' = "done"
        /\ UNCHANGED <<inst, metadata, station_data, ctor, upd_vars, requests, calls>>

\* the caller resumes with the mapping or the exception
StationsReturn ==
    /\ stn_pc = "done"
    /\ stn_pc' = "idle"
    /\ stn_doc' = NoBody
    /\ stn_outcome' = "none"
    /\ stn_result' = EmptyDict
    /\ UNCHANGED <<inst, metadata, station_data, ctor, upd_vars, stn_session, requests, calls>>

Next ==
    \/ Construct
    \/ UpdateEnter
    \/ UpdateGetReturns
    \/ UpdateGetRaises
    \/ UpdateReadRaises
    \/ UpdateBody
    \/ UpdateReturn
    \/ StationsEnter
    \/ StationsGetReturns
    \/ StationsGetRaises
    \/ StationsReadRaises
    \/ StationsBody
    \/ StationsReturn

Spec == Init /\ [][Next]_vars

(***************************************************************************)
(* What the claims speak of, read off the documents themselves.            *)
(***************************************************************************)
UpdateDone == upd_pc = "done"
XmlParsed == UpdateDone /\ inst.format = "xml" /\ upd_doc.decodes /\ upd_doc.wellformed
CsvRead == UpdateDone /\ inst.format = "csv" /\ upd_doc.decodes

\* the day-elements of a parsed document, in document order
DayElementsOf(body) == SelectSeq(body.root.children, LAMBDA e : e.tag = "stationdata")

Pad2(str) == IF Len(str) = 1 THEN <<"0">> \o str ELSE str
\* YYYY-MM-DD of a day-element that has its three attributes
DateKeyOf(el) == el.attrib.year \o <<"-">> \o Pad2(el.attrib.month) \o <<"-">> \o Pad2(el.attrib.day)
DateKeysOf(body) == {DateKeyOf(DayElementsOf(body)[i]) : i \in 1..Len(DayElementsOf(body))}
\* the last day-element of the document with that date
LastElementFor(body, key) ==
    DayElementsOf(body)[CHOOSE i \in 1..Len(DayElementsOf(body)) :
        /\ DateKeyOf(DayElementsOf(body)[i]) = key
        /\ \A j \in (i + 1)..Len(DayElementsOf(body)) : DateKeyOf(DayElementsOf(body)[j]) # key]

HasChild(el, tag) == \E i \in 1..Len(el.children) : el.children[i].tag = tag
FirstChild(el, tag) ==
    el.children[CHOOSE i \in 1..Len(el.children) :
        el.children[i].tag = tag /\ \A j \in 1..(i - 1) : el.children[j].tag # tag]
HasText(el, tag) == HasChild(el, tag) /\ FirstChild(el, tag).text # None

MetadataOfXml(body) ==
    [m \in Keys(metadata_meta) |->
        LET info == SelectSeq(body.root.children, LAMBDA e : e.tag = "stationinformation" /\ HasChild(e, m))
        IN IF Len(info) = 0 THEN None ELSE FirstChild(info[1], m).text]

CsvMetadataKeys == {"longitude", "latitude", "name", "climate_identifier"}

\* C1: when an update() that followed a successful update() has succeeded,
\* station_data holds no date that the second document lacks and metadata
\* is what the second document says (XML: its nine fields; CSV: exactly the
\* four fields of its first data row).
C1_SecondCallOverwrites ==
    (UpdateDone /\ upd_outcome = "ok" /\ upd_prev = "ok") =>
        IF inst.format = "xml"
        THEN /\ DOMAIN station_data.items \subseteq DateKeysOf(upd_doc)
             /\ metadata = MetadataOfXml(upd_doc)
        ELSE /\ DOMAIN metadata = CsvMetadataKeys
             /\ metadata.name = csv_reader(upd_doc.text)[2][3]

\* C2: in XML mode every DailyRecord stored in station_data has exactly the
\* eleven registered measurement kinds as its keys, whatever children the
\* day-elements had.
C2_RecordHasRegisteredKinds ==
    (inst.exists /\ inst.format = "xml") =>
        /\ station_data.type = "dict"
        /\ \A key \in DOMAIN station_data.items :
               /\ DOMAIN station_data.items[key] = Keys(stationdata_meta)
               /\ Cardinality(DOMAIN station_data.items[key]) = 11

\* C2 witness: a record was stored from a day-element that has an
\* unregistered child and lacks most registered ones.
C2_Witness ==
    /\ XmlParsed /\ upd_outcome = "ok"
    /\ \E i \in 1..Len(DayElementsOf(upd_doc)) :
           /\ DayElementsOf(upd_doc)[i] = DayRich
           /\ HasChild(DayRich, "windchill") /\ ~HasChild(DayRich, "totalsnow")
           /\ DateKeyOf(DayRich) \in DOMAIN station_data.items
           /\ station_data.items[DateKeyOf(DayRich)].dirofmaxgust.value = [type |-> "int", n |-> 12]

\* the constructor arguments break a declared constraint
BreaksConstraint(kwargs) ==
    \/ "station_id" \notin DOMAIN kwargs
    \/ "year" \notin DOMAIN kwargs
    \/ kwargs.station_id.type \notin {"int", "bool"}
    \/ kwargs.year.type \notin {"int", "bool"}
    \/ kwargs.year.n < 1840
    \/ kwargs.year.n > CurrentYear
    \/ "language" \in DOMAIN kwargs /\ kwargs.language \notin {PyStr("english"), PyStr("french")}
    \/ "format" \in DOMAIN kwargs /\ kwargs.format \notin {PyStr("xml"), PyStr("csv")}

\* C3: a constructor call whose arguments are out of range or of the wrong
\* kind (or lack station_id / year) ends with a validation error, has issued
\* no GET, and leaves no instance behind.
C3_InvalidConstructionFails ==
    (ctor.exc # "none" /\ BreaksConstraint(ctor.kwargs)) =>
        /\ ctor.exc = "MultipleInvalid"
        /\ ctor.requests = 0
        /\ ~inst.exists
        /\ upd_pc = "idle" /\ upd_outcome = "none"

\* C3 witness: year = 1700 was rejected.
C3_Witness ==
    /\ ctor.exc = "MultipleInvalid"
    /\ ctor.kwargs = [station_id |-> PyInt(4337), year |-> PyInt(1700)]
    /\ ~inst.exists

\* C4: once a call of update or of get_historical_stations has ended, by
\* return or by any exception, its session is closed.
C4_SessionReleased ==
    /\ upd_pc \in {"idle", "done"} => ~upd_session
    /\ stn_pc \in {"idle", "done"} => ~stn_session

\* C4 witness: update() ended with a coercion error raised inside the
\* session block, and the session is closed.
C4_Witness ==
    /\ upd_pc = "done" /\ upd_outcome = "ValueError" /\ ~upd_session
    /\ upd_requests = 1

\* the form lacks the structure the loop body reads
LacksStructure(form) ==
    \/ Len(form.divs) < 3
    \/ \E n \in {"StationID", "hlyRange", "dlyRange", "mlyRange"} :
           \A i \in 1..Len(form.inputs) : form.inputs[i].name # n
SelectedForms(page) ==
    SelectSeq(page.forms, LAMBDA f : StartsWith(f.id, stnRequest) /\ EndsWith(f.id, sm))

\* C5: for every fetched and parsed station-search page the call returns a
\* mapping and raises nothing; with no selected form, or with a selected
\* form that lacks the expected structure, the mapping is empty.
C5_MalformedPageGivesEmptyMapping ==
    (stn_pc = "done" /\ stn_doc.decodes /\ ~stn_doc.empty) =>
        /\ stn_outcome = "ok"
        /\ Len(SelectedForms(stn_doc)) = 0 => stn_result = EmptyDict
        /\ (\E i \in 1..Len(SelectedForms(stn_doc)) : LacksStructure(SelectedForms(stn_doc)[i]))
               => stn_result = EmptyDict

\* the entry of kind s in the record stored for the day-element el
EntryOf(el, s) == station_data.items[DateKeyOf(el)][s]
\* the day-elements whose record is the stored one
StoredElements ==
    {LastElementFor(upd_doc, key) : key \in DateKeysOf(upd_doc)}
LabelOf(s) == MetaOf(stationdata_meta, s)[inst.language]

\* C6 as claimed: an absent child or one without text gives value null,
\* the label and no unit, and raises nothing; a child with text gives a unit
\* key equal to its units attribute if it carries one, none if it does not.
C6_UnitWheneverAttribute ==
    /\ (XmlParsed /\ upd_outcome = "ValueError") =>
           \E i \in 1..Len(DayElementsOf(upd_doc)) : \E s \in Keys(stationdata_meta) :
               HasText(DayElementsOf(upd_doc)[i], s)
    /\ (XmlParsed /\ upd_outcome = "ok") =>
           \A el \in StoredElements : \A s \in Keys(stationdata_meta) :
               IF ~HasText(el, s)
               THEN EntryOf(el, s) = [value |-> NoneValue, label |-> LabelOf(s)]
               ELSE IF "units" \in DOMAIN FirstChild(el, s).attrib
               THEN /\ "unit" \in DOMAIN EntryOf(el, s)
                    /\ EntryOf(el, s).unit = FirstChild(el, s).attrib.units
               ELSE "unit" \notin DOMAIN EntryOf(el, s)

\* C6 as amended: the same, but a child with text gives a unit key, equal
\* to its units attribute, exactly when it carries a non-empty one.
C6_UnitWhenNonEmptyAttribute ==
    /\ (XmlParsed /\ upd_outcome = "ValueError") =>
           \E i \in 1..Len(DayElementsOf(upd_doc)) : \E s \in Keys(stationdata_meta) :
               HasText(DayElementsOf(upd_doc)[i], s)
    /\ (XmlParsed /\ upd_outcome = "ok") =>
           \A el \in StoredElements : \A s \in Keys(stationdata_meta) :
               IF ~HasText(el, s)
               THEN EntryOf(el, s) = [value |-> NoneValue, label |-> LabelOf(s)]
               ELSE IF "units" \in DOMAIN FirstChild(el, s).attrib /\ FirstChild(el, s).attrib.units # <<>>
               THEN /\ "unit" \in DOMAIN EntryOf(el, s)
                    /\ EntryOf(el, s).unit = FirstChild(el, s).attrib.units
                    /\ EntryOf(el, s).label = LabelOf(s)
               ELSE /\ "unit" \notin DOMAIN EntryOf(el, s)
                    /\ EntryOf(el, s).label = LabelOf(s)

\* C6 witness: the record of a day-element with a units="mm" child, a child
\* with text and no units, a child with units="" and absent children.
C6_Witness ==
    /\ XmlParsed /\ upd_outcome = "ok" /\ inst.language = "french"
    /\ DayRich \in StoredElements
    /\ EntryOf(DayRich, "totalrain") =
           [value |-> [type |-> "float", num |-> 0, scale |-> 0], unit |-> <<"m", "m">>, label |-> "Pluie totale"]
    /\ EntryOf(DayRich, "maxtemp").value = [type |-> "float", num |-> 15, scale |-> 1]
    /\ DOMAIN EntryOf(DayRich, "dirofmaxgust") = {"value", "label"}
    /\ DOMAIN EntryOf(DayRich, "mintemp") = {"value", "label"}
    /\ EntryOf(DayRich, "totalsnow") = [value |-> NoneValue, label |-> "Neige totale"]

\* C7: after a successful CSV update, metadata has exactly the keys
\* longitude, latitude, name, climate_identifier, holding columns 0..3 of
\* the first data row as text, and station_data is the raw document.
C7_CsvMetadataFromFirstDataRow ==
    (CsvRead /\ upd_outcome = "ok") =>
        /\ Len(csv_reader(upd_doc.text)) >= 2
        /\ DOMAIN metadata = CsvMetadataKeys
        /\ LET row == csv_reader(upd_doc.text)[2] IN
               /\ metadata.longitude = row[1]
               /\ metadata.latitude = row[2]
               /\ metadata.name = row[3]
               /\ metadata.climate_identifier = row[4]
        /\ station_data = [type |-> "StringIO", value |-> upd_doc.text]

\* C7 witness: header h,i,j,k, first data row 1,2,3,4,5 and a later row.
C7_Witness ==
    /\ CsvRead /\ upd_outcome = "ok"
    /\ Len(csv_reader(upd_doc.text)) = 3
    /\ metadata = [longitude |-> <<"1">>, latitude |-> <<"2">>, name |-> <<"3">>,
                    climate_identifier |-> <<"4">>]
    /\ station_data.type = "StringIO"

\* C8: after one successful XML update on a fresh instance the keys of
\* station_data are the zero-padded YYYY-MM-DD dates of the document's
\* day-elements, and the record of a date is the one built from the last
\* day-element with that date.
C8_DateKeysOfDocument ==
    (XmlParsed /\ upd_outcome = "ok" /\ old = NoOld) =>
        /\ DOMAIN station_data.items = DateKeysOf(upd_doc)
        /\ \A key \in DateKeysOf(upd_doc) :
               station_data.items[key] = cur_station_data(LastElementFor(upd_doc, key), inst.language)

\* C8 witness: day=5 month=3 year=2020 is stored under "2020-03-05", and of
\* two elements of that date the later one is the stored one.
C8_Witness ==
    /\ XmlParsed /\ upd_outcome = "ok" /\ old = NoOld
    /\ DayElementsOf(upd_doc) = <<DayRich, DayPadded>>
    /\ DOMAIN station_data.items = {<<"2", "0", "2", "0", "-", "0", "3", "-", "0", "5">>}
    /\ station_data.items[<<"2", "0", "2", "0", "-", "0", "3", "-", "0", "5">>].speedofmaxgust.value
           = [type |-> "int", n |-> 31]
    /\ station_data.items[<<"2", "0", "2", "0", "-", "0", "3", "-", "0", "5">>].maxtemp.value = NoneValue

\* C9: an update() that ended with a transport error, or in XML mode with a
\* parse error of the body, issued one GET and left metadata and
\* station_data as they were when it was entered.
C9_FailedFetchChangesNothing ==
    (UpdateDone /\ (upd_outcome \in TransportErrors
                    \/ (inst.format = "xml" /\ upd_outcome = "ParseError"))) =>
        /\ metadata = old.metadata
        /\ station_data = old.station_data
        /\ upd_requests = 1

\* C9 witness: a malformed XML body arrived at an instance that already
\* held data.
C9_Witness ==
    /\ UpdateDone /\ inst.format = "xml" /\ upd_outcome = "ParseError"
    /\ station_data.items # EmptyDict
    /\ metadata # EmptyDict

\* C10: a CSV update() on a document of fewer than two rows ends with an
\* error; station_data is then the new raw document and metadata is what it
\* was when the call was entered.
C10_ShortCsvLeavesFieldsOutOfStep ==
    (CsvRead /\ Len(csv_reader(upd_doc.text)) < 2) =>
        /\ upd_outcome \notin {"ok", "none", "running"}
        /\ station_data = [type |-> "StringIO", value |-> upd_doc.text]
        /\ metadata = old.metadata

\* C10 witness: a header-only document arrived after a successful update.
C10_Witness ==
    /\ CsvRead /\ upd_doc.text = Header
    /\ upd_outcome = "RuntimeError"
    /\ upd_prev = "ok"
    /\ station_data # old.station_data
    /\ metadata = old.metadata /\ DOMAIN metadata = CsvMetadataKeys
====
